---- MODULE Spec2Model ----
(***************************************************************************)
(* Model of the jiraffe repository layer (src/database.rs, src/models.rs): *)
(* the state document held by the store and the CRUD operations of         *)
(* JiraDatabase.  Each operation is an operator from the document read     *)
(* from the store (and the call's arguments) to an outcome record          *)
(*     [db, ok, id, wrote, err, err_id]                                    *)
(* where db is the document the store holds when the call returns.         *)
(***************************************************************************)
EXTENDS Integers, Sequences, FiniteSets, TLC

----------------------------------------------------------------------------
(* Bounds of the model *)

\* ids are issued up to MaxId; creates are disabled beyond it.  The counter
\* is a u32 in the code; with MaxId far below 2^32 - 1 the increment never
\* overflows in the model, and it is written as a plain + 1.
MaxId == 3

\* the texts the prompts hand to Epic::new / Story::new
Names == {"n1", "n2"}
Descriptions == {"d1"}

\* ids passed as arguments: every id that can exist, and one that never does
IdArgs == 1..(MaxId + 1)

----------------------------------------------------------------------------
(* models.rs *)

Status == {"Closed", "Open", "InProgress", "Resolved"}

\* Epic::new: status Open, no stories
EpicNew(name, description) ==
    [name |-> name, description |-> description, status |-> "Open", stories |-> <<>>]

\* Story::new: status Open
StoryNew(name, description) ==
    [name |-> name, description |-> description, status |-> "Open"]

\* DBState::new / MockDB::new: the empty document
DBStateNew ==
    [last_item_id |-> 0, epics |-> <<>>, stories |-> <<>>]

----------------------------------------------------------------------------
(* helpers: HashMap and Vec operations *)

\* HashMap::insert: adds the key or replaces its value
Insert(m, k, v) ==
    [x \in (DOMAIN m) \cup {k} |-> IF x = k THEN v ELSE m[x]]

\* HashMap::contains_key / get(..).is_some()
ContainsKey(m, k) == k \in DOMAIN m

\* Vec::push
Push(s, x) == Append(s, x)

\* the elements of a Vec
Elems(s) == {s[i] : i \in DOMAIN s}

\* the outcome of a call that fails with anyhow!("... with id {id} not found")
NotFound(d, kind, id) ==
    [db |-> d, ok |-> FALSE, id |-> 0, wrote |-> FALSE, err |-> kind, err_id |-> id]

\* the outcome of a call that returns Ok(id) (Ok(()) when id = 0)
Success(d, id, wrote) ==
    [db |-> d, ok |-> TRUE, id |-> id, wrote |-> wrote, err |-> "none", err_id |-> 0]

----------------------------------------------------------------------------
(* database.rs: JiraDatabase, on the document d that database.read() gave *)

\* create_epic with the id computed but the counter never stored back
create_epic_stale_counter(d, epic) ==
    LET epic_id == d.last_item_id + 1
        db_state == [last_item_id |-> d.last_item_id,
                     epics        |-> Insert(d.epics, epic_id, epic),
                     stories      |-> d.stories]
    IN  Success(db_state, epic_id, TRUE)

\* create_epic with the id taken before the increment
create_epic_id_before_increment(d, epic) ==
    LET epic_id == d.last_item_id
        db_state == [last_item_id |-> d.last_item_id + 1,
                     epics        |-> Insert(d.epics, epic_id, epic),
                     stories      |-> d.stories]
    IN  Success(db_state, epic_id, TRUE)

create_epic(d, epic) ==
    LET epic_id == d.last_item_id + 1
        db_state == [last_item_id |-> epic_id,
                     epics        |-> Insert(d.epics, epic_id, epic),
                     stories      |-> d.stories]
    IN  Success(db_state, epic_id, TRUE)

\* create_story with the id inserted at the front of the epic's stories
create_story_prepend(d, story, epic_id) ==
    IF ContainsKey(d.epics, epic_id)
    THEN LET story_id == d.last_item_id + 1
             epic     == d.epics[epic_id]
             db_state == [last_item_id |-> story_id,
                          epics        |-> [d.epics EXCEPT ![epic_id] =
                                               [epic EXCEPT !.stories = <<story_id>> \o epic.stories]],
                          stories      |-> Insert(d.stories, story_id, story)]
         IN  Success(db_state, story_id, TRUE)
    ELSE NotFound(d, "epic_not_found", epic_id)

\* create_story without the epic lookup: an absent epic still gets the story stored
create_story_unchecked(d, story, epic_id) ==
    LET story_id == d.last_item_id + 1
        epics    == IF ContainsKey(d.epics, epic_id)
                    THEN [d.epics EXCEPT ![epic_id] =
                             [@ EXCEPT !.stories = Push(@, story_id)]]
                    ELSE d.epics
        db_state == [last_item_id |-> story_id,
                     epics        |-> epics,
                     stories      |-> Insert(d.stories, story_id, story)]
    IN  Success(db_state, story_id, TRUE)

\* create_story that increments and persists the counter before the epic lookup
create_story_write_first(d, story, epic_id) ==
    LET story_id == d.last_item_id + 1
    IN  IF ContainsKey(d.epics, epic_id)
        THEN LET epic     == d.epics[epic_id]
                 db_state == [last_item_id |-> story_id,
                              epics        |-> [d.epics EXCEPT ![epic_id] =
                                                   [epic EXCEPT !.stories = Push(epic.stories, story_id)]],
                              stories      |-> Insert(d.stories, story_id, story)]
             IN  Success(db_state, story_id, TRUE)
        ELSE [NotFound([d EXCEPT !.last_item_id = story_id], "epic_not_found", epic_id)
                 EXCEPT !.wrote = TRUE]

\* create_story with the id computed but the counter never stored back
create_story_stale_counter(d, story, epic_id) ==
    IF ContainsKey(d.epics, epic_id)
    THEN LET story_id == d.last_item_id + 1
             epic     == d.epics[epic_id]
             db_state == [last_item_id |-> d.last_item_id,
                          epics        |-> [d.epics EXCEPT ![epic_id] =
                                               [epic EXCEPT !.stories = Push(epic.stories, story_id)]],
                          stories      |-> Insert(d.stories, story_id, story)]
         IN  Success(db_state, story_id, TRUE)
    ELSE NotFound(d, "epic_not_found", epic_id)

\* create_story that pushes the new id onto the stories of every epic
create_story_into_every_epic(d, story, epic_id) ==
    IF ContainsKey(d.epics, epic_id)
    THEN LET story_id == d.last_item_id + 1
             db_state == [last_item_id |-> story_id,
                          epics        |-> [e \in DOMAIN d.epics |->
                                               [d.epics[e] EXCEPT !.stories = Push(@, story_id)]],
                          stories      |-> Insert(d.stories, story_id, story)]
         IN  Success(db_state, story_id, TRUE)
    ELSE NotFound(d, "epic_not_found", epic_id)

create_story(d, story, epic_id) ==
    IF ContainsKey(d.epics, epic_id)
    THEN LET story_id == d.last_item_id + 1
             epic     == d.epics[epic_id]
             db_state == [last_item_id |-> story_id,
                          epics        |-> [d.epics EXCEPT ![epic_id] =
                                               [epic EXCEPT !.stories = Push(epic.stories, story_id)]],
                          stories      |-> Insert(d.stories, story_id, story)]
         IN  Success(db_state, story_id, TRUE)
    ELSE NotFound(d, "epic_not_found", epic_id)

\* delete_epic that gives the id back by decrementing the counter
delete_epic_decrementing(d, epic_id) ==
    IF ContainsKey(d.epics, epic_id)
    THEN Success([d EXCEPT !.last_item_id = d.last_item_id - 1], 0, TRUE)
    ELSE NotFound(d, "epic_not_found", epic_id)

\* the body only looks the epic up: nothing is removed, nothing is written
delete_epic(d, epic_id) ==
    IF ContainsKey(d.epics, epic_id)
    THEN Success(d, 0, FALSE)
    ELSE NotFound(d, "epic_not_found", epic_id)

\* delete_story that removes the story entry and filters the given epic's stories
delete_story_removing(d, epic_id, story_id) ==
    IF ContainsKey(d.epics, epic_id)
    THEN IF ContainsKey(d.stories, story_id)
         THEN LET epic     == d.epics[epic_id]
                  db_state == [last_item_id |-> d.last_item_id,
                               epics        |-> [d.epics EXCEPT ![epic_id] =
                                                    [epic EXCEPT !.stories =
                                                        SelectSeq(epic.stories, LAMBDA x : x # story_id)]],
                               stories      |-> [x \in (DOMAIN d.stories) \ {story_id} |-> d.stories[x]]]
              IN  Success(db_state, 0, TRUE)
         ELSE NotFound(d, "story_not_found", story_id)
    ELSE NotFound(d, "epic_not_found", epic_id)

\* delete_story that looks the story up before the epic
delete_story_story_first(d, epic_id, story_id) ==
    IF ContainsKey(d.stories, story_id)
    THEN IF ContainsKey(d.epics, epic_id)
         THEN Success(d, 0, FALSE)
         ELSE NotFound(d, "epic_not_found", epic_id)
    ELSE NotFound(d, "story_not_found", story_id)

\* the body only looks the epic and the story up
delete_story(d, epic_id, story_id) ==
    IF ContainsKey(d.epics, epic_id)
    THEN IF ContainsKey(d.stories, story_id)
         THEN Success(d, 0, FALSE)
         ELSE NotFound(d, "story_not_found", story_id)
    ELSE NotFound(d, "epic_not_found", epic_id)

\* update_epic_status that stores a rebuilt epic, losing its stories
update_epic_status_rebuilding(d, epic_id, status) ==
    IF ContainsKey(d.epics, epic_id)
    THEN LET epic     == d.epics[epic_id]
             db_state == [d EXCEPT !.epics[epic_id] =
                             [name |-> epic.name, description |-> epic.description,
                              status |-> status, stories |-> <<>>]]
         IN  Success(db_state, 0, TRUE)
    ELSE NotFound(d, "epic_not_found", epic_id)

\* the body only looks the epic up: status is never assigned
update_epic_status(d, epic_id, status) ==
    IF ContainsKey(d.epics, epic_id)
    THEN Success(d, 0, FALSE)
    ELSE NotFound(d, "epic_not_found", epic_id)

\* update_story_status that looks the id up in the epics map
update_story_status_in_epics(d, story_id, status) ==
    IF ContainsKey(d.epics, story_id)
    THEN Success(d, 0, FALSE)
    ELSE NotFound(d, "story_not_found", story_id)

\* the body only looks the story up: status is never assigned
update_story_status(d, story_id, status) ==
    IF ContainsKey(d.stories, story_id)
    THEN Success(d, 0, FALSE)
    ELSE NotFound(d, "story_not_found", story_id)

----------------------------------------------------------------------------
(* database.rs: JSONFileDatabase.  The file is [exists, texts]: texts is the *)
(* sequence of top-level JSON texts the file holds (one after a write, none  *)
(* when the file is empty).  A JSON text is [t, n, s, a, o]: t its kind and  *)
(* n / s / a / o its content when it is a number / string / array / object;  *)
(* object keys are strings spelt as tuples of characters.                    *)

Digits == <<"0", "1", "2", "3", "4", "5", "6", "7", "8", "9">>

RECURSIVE U32ToString(_)
\* u32::to_string: the decimal digits of n (serde_json writes map keys so)
U32ToString(n) ==
    IF n < 10 THEN <<Digits[n + 1]>>
    ELSE Append(U32ToString(n \div 10), Digits[(n % 10) + 1])

\* a key that is a non-empty run of decimal digits
IsDigits(k) ==
    /\ Len(k) >= 1
    /\ \A i \in DOMAIN k : \E d \in DOMAIN Digits : Digits[d] = k[i]

DigitValue(c) == (CHOOSE d \in DOMAIN Digits : Digits[d] = c) - 1

RECURSIVE ParseU32(_)
\* str::parse::<u32> of a run of digits
ParseU32(k) ==
    IF Len(k) = 1 THEN DigitValue(k[1])
    ELSE 10 * ParseU32(SubSeq(k, 1, Len(k) - 1)) + DigitValue(k[Len(k)])

JNum(n) == [t |-> "num", n |-> n, s |-> "", a |-> <<>>, o |-> <<>>]
JStr(x) == [t |-> "str", n |-> 0, s |-> x, a |-> <<>>, o |-> <<>>]
JArr(a) == [t |-> "arr", n |-> 0, s |-> "", a |-> a, o |-> <<>>]
JObj(o) == [t |-> "obj", n |-> 0, s |-> "", a |-> <<>>, o |-> o]
\* a text that is not JSON at all
JGarbage == [t |-> "garbage", n |-> 0, s |-> "", a |-> <<>>, o |-> <<>>]

\* the key of a struct field
Field(name) == <<name>>

\* #[derive(Serialize)] for Status: a unit variant is written as its name
EncodeStatus(status) == JStr(status)

\* #[derive(Serialize)] for Story
EncodeStory(story) ==
    JObj([k \in {Field("name"), Field("description"), Field("status")} |->
            IF k = Field("name") THEN JStr(story.name)
            ELSE IF k = Field("description") THEN JStr(story.description)
            ELSE EncodeStatus(story.status)])

\* #[derive(Serialize)] for Epic
EncodeEpic(epic) ==
    JObj([k \in {Field("name"), Field("description"), Field("status"), Field("stories")} |->
            IF k = Field("name") THEN JStr(epic.name)
            ELSE IF k = Field("description") THEN JStr(epic.description)
            ELSE IF k = Field("status") THEN EncodeStatus(epic.status)
            ELSE JArr([i \in DOMAIN epic.stories |-> JNum(epic.stories[i])])])

\* Serialize for HashMap<u32, Epic> / HashMap<u32, Story>: keys as decimal strings
EncodeEpics(m) ==
    JObj([k \in {U32ToString(id) : id \in DOMAIN m} |-> EncodeEpic(m[ParseU32(k)])])

EncodeStories(m) ==
    JObj([k \in {U32ToString(id) : id \in DOMAIN m} |-> EncodeStory(m[ParseU32(k)])])

\* serde_json::to_vec(&DBState)
Encode(d) ==
    JObj([k \in {Field("last_item_id"), Field("epics"), Field("stories")} |->
            IF k = Field("last_item_id") THEN JNum(d.last_item_id)
            ELSE IF k = Field("epics") THEN EncodeEpics(d.epics)
            ELSE EncodeStories(d.stories)])

\* Deserialize for u32 / String / Status / Vec<u32>
IsU32(j) == j.t = "num" /\ j.n >= 0
IsText(j) == j.t = "str"
IsStatus(j) == j.t = "str" /\ j.s \in Status
IsVecU32(j) == j.t = "arr" /\ \A i \in DOMAIN j.a : IsU32(j.a[i])

\* #[derive(Deserialize)] for Story: every field present and of its type
\* (fields the struct does not have are ignored)
IsStory(j) ==
    /\ j.t = "obj"
    /\ {Field("name"), Field("description"), Field("status")} \subseteq DOMAIN j.o
    /\ IsText(j.o[Field("name")])
    /\ IsText(j.o[Field("description")])
    /\ IsStatus(j.o[Field("status")])

DecodeStory(j) ==
    [name        |-> j.o[Field("name")].s,
     description |-> j.o[Field("description")].s,
     status      |-> j.o[Field("status")].s]

\* #[derive(Deserialize)] for Epic
IsEpic(j) ==
    /\ j.t = "obj"
    /\ {Field("name"), Field("description"), Field("status"), Field("stories")}
          \subseteq DOMAIN j.o
    /\ IsText(j.o[Field("name")])
    /\ IsText(j.o[Field("description")])
    /\ IsStatus(j.o[Field("status")])
    /\ IsVecU32(j.o[Field("stories")])

DecodeEpic(j) ==
    [name        |-> j.o[Field("name")].s,
     description |-> j.o[Field("description")].s,
     status      |-> j.o[Field("status")].s,
     stories     |-> [i \in DOMAIN j.o[Field("stories")].a |-> j.o[Field("stories")].a[i].n]]

\* Deserialize for HashMap<u32, _>: an object whose keys parse as u32
IsEpics(j) ==
    /\ j.t = "obj"
    /\ \A k \in DOMAIN j.o : IsDigits(k) /\ IsEpic(j.o[k])

IsStories(j) ==
    /\ j.t = "obj"
    /\ \A k \in DOMAIN j.o : IsDigits(k) /\ IsStory(j.o[k])

DecodeEpics(j) ==
    [id \in {ParseU32(k) : k \in DOMAIN j.o} |-> DecodeEpic(j.o[U32ToString(id)])]

DecodeStories(j) ==
    [id \in {ParseU32(k) : k \in DOMAIN j.o} |-> DecodeStory(j.o[U32ToString(id)])]

\* #[derive(Deserialize)] for DBState: the three fields present and decodable
IsDBState(j) ==
    /\ j.t = "obj"
    /\ {Field("last_item_id"), Field("epics"), Field("stories")} \subseteq DOMAIN j.o
    /\ IsU32(j.o[Field("last_item_id")])
    /\ IsEpics(j.o[Field("epics")])
    /\ IsStories(j.o[Field("stories")])

DecodeDBState(j) ==
    [last_item_id |-> j.o[Field("last_item_id")].n,
     epics        |-> DecodeEpics(j.o[Field("epics")]),
     stories      |-> DecodeStories(j.o[Field("stories")])]

\* the result of Database::read
ReadErr(kind) == [ok |-> FALSE, err |-> kind, doc |-> DBStateNew]
ReadOk(d) == [ok |-> TRUE, err |-> "none", doc |-> d]

\* a read whose DBState takes an absent epics / stories field as an empty map
read_defaulting(f) ==
    IF ~f.exists THEN ReadErr("io")
    ELSE IF Len(f.texts) = 1 /\ f.texts[1].t = "obj"
    THEN LET o == f.texts[1].o
             filled == JObj([k \in (DOMAIN o) \cup {Field("epics"), Field("stories")} |->
                               IF k \in DOMAIN o THEN o[k] ELSE JObj(<<>>)])
         IN  IF IsDBState(filled) THEN ReadOk(DecodeDBState(filled)) ELSE ReadErr("decode")
    ELSE ReadErr("decode")

\* JSONFileDatabase::read: fs::read_to_string fails on a missing file;
\* serde_json::from_str wants exactly one JSON text that decodes as DBState
read(f) ==
    IF ~f.exists THEN ReadErr("io")
    ELSE IF Len(f.texts) = 1 /\ IsDBState(f.texts[1])
    THEN ReadOk(DecodeDBState(f.texts[1]))
    ELSE ReadErr("decode")

\* a write that opens the file for appending instead of truncating it
write_appending(f, data) ==
    [exists |-> TRUE, texts |-> Append(f.texts, Encode(data))]

\* JSONFileDatabase::write: fs::write creates or truncates the file
write(f, data) ==
    [exists |-> TRUE, texts |-> <<Encode(data)>>]

\* no file at the path
NoFile == [exists |-> FALSE, texts |-> <<>>]

----------------------------------------------------------------------------
(* navigator.rs: the page stack.  A page is [kind, epic_id, story_id]. *)

HomePage == [kind |-> "HomePage", epic_id |-> 0, story_id |-> 0]
EpicDetail(epic_id) == [kind |-> "EpicDetail", epic_id |-> epic_id, story_id |-> 0]
StoryDetail(epic_id, story_id) ==
    [kind |-> "StoryDetail", epic_id |-> epic_id, story_id |-> story_id]

\* a navigator built with no page at all
NavigatorNew_no_page == <<>>

\* Navigator::new: pages is vec![HomePage]
NavigatorNew == <<HomePage>>

\* Navigator::get_current_page: pages.last(), None on an empty stack
get_current_page(ps) ==
    IF ps = <<>> THEN [some |-> FALSE, page |-> HomePage]
    ELSE [some |-> TRUE, page |-> ps[Len(ps)]]

\* a push that takes the place of the page on top instead of going above it
PushPage_replacing_top(ps, page) ==
    IF ps = <<>> THEN <<page>> ELSE Append(SubSeq(ps, 1, Len(ps) - 1), page)

\* pages.push(Box::new(detail))
PushPage(ps, page) == Append(ps, page)

\* a pop that never removes the last page left
PopPage_keeping_last(ps) ==
    IF Len(ps) > 1 THEN SubSeq(ps, 1, Len(ps) - 1) ELSE ps

\* a pop that removes nothing
PopPage_nothing(ps) == ps

\* if !self.pages.is_empty() { self.pages.pop(); }
PopPage(ps) ==
    IF ps # <<>> THEN SubSeq(ps, 1, Len(ps) - 1) ELSE ps

\* an exit that goes back to the Home page instead of clearing the stack
ClearPages_to_home(ps) == <<HomePage>>

\* self.pages.clear()
ClearPages(ps) == <<>>

----------------------------------------------------------------------------
(* interface/pages.rs: draw_page and handle_input of the three pages.  An    *)
(* input line is a tuple of characters.  r is what self.database.read()      *)
(* returns: [ok, err, doc].  An action is [type, epic_id, story_id].         *)

Action(type, epic_id, story_id) ==
    [type |-> type, epic_id |-> epic_id, story_id |-> story_id]

\* Ok(None)
NoAction == Action("None", 0, 0)

\* u32::MAX, as digits
U32MaxDigits == <<"4", "2", "9", "4", "9", "6", "7", "2", "9", "5">>

RECURSIVE StripZeros(_)
\* a run of digits without its leading zeros
StripZeros(k) ==
    IF Len(k) > 1 /\ k[1] = "0" THEN StripZeros(Tail(k)) ELSE k

RECURSIVE LeqDigits(_, _)
\* a <= b for two runs of digits of the same length
LeqDigits(a, b) ==
    IF a = <<>> THEN TRUE
    ELSE IF DigitValue(a[1]) < DigitValue(b[1]) THEN TRUE
    ELSE IF DigitValue(a[1]) > DigitValue(b[1]) THEN FALSE
    ELSE LeqDigits(Tail(a), Tail(b))

\* the number a run of digits spells fits a u32 (no PosOverflow)
FitsU32(k) ==
    LET z == StripZeros(k)
    IN  \/ Len(z) < Len(U32MaxDigits)
        \/ Len(z) = Len(U32MaxDigits) /\ LeqDigits(z, U32MaxDigits)

\* input.parse::<u32>(): an optional "+", then digits only, all of the input,
\* within u32; [ok, value]
ParseInput(input) ==
    LET k == IF input # <<>> /\ input[1] = "+" THEN Tail(input) ELSE input
    IN  IF IsDigits(k) /\ FitsU32(k)
        THEN [ok |-> TRUE, value |-> ParseU32(k)]
        ELSE [ok |-> FALSE, value |-> 0]

\* the results of handle_input
InputOk(action) == [ok |-> TRUE, err |-> "none", action |-> action]
InputErr(kind) == [ok |-> FALSE, err |-> kind, action |-> NoAction]

\* HomePage::handle_input without the contains_key check
HomePage_handle_input_unchecked(r, input) ==
    IF input = <<"q">> THEN InputOk(Action("Exit", 0, 0))
    ELSE IF input = <<"c">> THEN InputOk(Action("CreateEpic", 0, 0))
    ELSE LET n == ParseInput(input)
         IN  IF n.ok
             THEN IF ~r.ok THEN InputErr(r.err)
                  ELSE InputOk(Action("NavigateToEpicDetail", n.value, 0))
             ELSE InputOk(NoAction)

\* HomePage::handle_input
HomePage_handle_input(r, input) ==
    IF input = <<"q">> THEN InputOk(Action("Exit", 0, 0))
    ELSE IF input = <<"c">> THEN InputOk(Action("CreateEpic", 0, 0))
    ELSE LET n == ParseInput(input)
         IN  IF n.ok
             THEN IF ~r.ok THEN InputErr(r.err)
                  ELSE IF ContainsKey(r.doc.epics, n.value)
                       THEN InputOk(Action("NavigateToEpicDetail", n.value, 0))
                       ELSE InputOk(NoAction)
             ELSE InputOk(NoAction)

\* EpicDetail::handle_input with the numeric arm of HomePage::handle_input
EpicDetail_handle_input_home_arm(p, r, input) ==
    IF input = <<"p">> THEN InputOk(Action("NavigateToPreviousPage", 0, 0))
    ELSE IF input = <<"u">> THEN InputOk(Action("UpdateEpicStatus", p.epic_id, 0))
    ELSE IF input = <<"d">> THEN InputOk(Action("DeleteEpic", p.epic_id, 0))
    ELSE IF input = <<"c">> THEN InputOk(Action("CreateStory", p.epic_id, 0))
    ELSE LET n == ParseInput(input)
         IN  IF n.ok
             THEN IF ~r.ok THEN InputErr(r.err)
                  ELSE IF ContainsKey(r.doc.epics, n.value)
                       THEN InputOk(Action("NavigateToEpicDetail", n.value, 0))
                       ELSE InputOk(NoAction)
             ELSE InputOk(NoAction)

\* EpicDetail::handle_input: the numeric arm looks the id up in
\* db_state.stories, the map of all stories
EpicDetail_handle_input(p, r, input) ==
    IF input = <<"p">> THEN InputOk(Action("NavigateToPreviousPage", 0, 0))
    ELSE IF input = <<"u">> THEN InputOk(Action("UpdateEpicStatus", p.epic_id, 0))
    ELSE IF input = <<"d">> THEN InputOk(Action("DeleteEpic", p.epic_id, 0))
    ELSE IF input = <<"c">> THEN InputOk(Action("CreateStory", p.epic_id, 0))
    ELSE LET n == ParseInput(input)
         IN  IF n.ok
             THEN IF ~r.ok THEN InputErr(r.err)
                  ELSE IF ContainsKey(r.doc.stories, n.value)
                       THEN InputOk(Action("NavigateToStoryDetail", p.epic_id, n.value))
                       ELSE InputOk(NoAction)
             ELSE InputOk(NoAction)

\* StoryDetail::handle_input with the numeric arm of EpicDetail::handle_input
StoryDetail_handle_input_numeric(p, r, input) ==
    IF input = <<"p">> THEN InputOk(Action("NavigateToPreviousPage", 0, 0))
    ELSE IF input = <<"u">> THEN InputOk(Action("UpdateStoryStatus", 0, p.story_id))
    ELSE IF input = <<"d">> THEN InputOk(Action("DeleteStory", p.epic_id, p.story_id))
    ELSE LET n == ParseInput(input)
         IN  IF n.ok /\ r.ok /\ ContainsKey(r.doc.stories, n.value)
             THEN InputOk(Action("NavigateToStoryDetail", p.epic_id, n.value))
             ELSE InputOk(NoAction)

\* StoryDetail::handle_input: the store is never read
StoryDetail_handle_input(p, r, input) ==
    IF input = <<"p">> THEN InputOk(Action("NavigateToPreviousPage", 0, 0))
    ELSE IF input = <<"u">> THEN InputOk(Action("UpdateStoryStatus", 0, p.story_id))
    ELSE IF input = <<"d">> THEN InputOk(Action("DeleteStory", p.epic_id, p.story_id))
    ELSE InputOk(NoAction)

\* Page::handle_input, dispatched on the page's type
handle_input(p, r, input) ==
    IF p.kind = "HomePage" THEN HomePage_handle_input(r, input)
    ELSE IF p.kind = "EpicDetail" THEN EpicDetail_handle_input(p, r, input)
    ELSE StoryDetail_handle_input(p, r, input)

\* the ids of a set in increasing order (sorted_by_key / sorted)
RECURSIVE SortedIds(_)
SortedIds(ids) ==
    IF ids = {} THEN <<>>
    ELSE LET m == CHOOSE x \in ids : \A y \in ids : x <= y
         IN  <<m>> \o SortedIds(ids \ {m})

\* the results of draw_page: rows are the ids of the table rows printed
DrawOk(rows) == [ok |-> TRUE, err |-> "none", err_id |-> 0, rows |-> rows]
DrawErr(kind, id) == [ok |-> FALSE, err |-> kind, err_id |-> id, rows |-> <<>>]

\* HomePage::draw_page: one row per epic, by id
HomePage_draw_page(r) ==
    IF ~r.ok THEN DrawErr(r.err, 0)
    ELSE DrawOk(SortedIds(DOMAIN r.doc.epics))

\* EpicDetail::draw_page: the epic, then one row per story id of the epic
\* that is a key of the stories map
EpicDetail_draw_page(p, r) ==
    IF ~r.ok THEN DrawErr(r.err, 0)
    ELSE IF ~ContainsKey(r.doc.epics, p.epic_id) THEN DrawErr("epic_not_found", p.epic_id)
    ELSE DrawOk(SelectSeq(SortSeq(r.doc.epics[p.epic_id].stories, LAMBDA a, b : a < b),
                          LAMBDA id : ContainsKey(r.doc.stories, id)))

\* StoryDetail::draw_page that looks self.epic_id up as well
StoryDetail_draw_page_checking_epic(p, r) ==
    IF ~r.ok THEN DrawErr(r.err, 0)
    ELSE IF ~ContainsKey(r.doc.epics, p.epic_id) THEN DrawErr("epic_not_found", p.epic_id)
    ELSE IF ~ContainsKey(r.doc.stories, p.story_id) THEN DrawErr("story_not_found", p.story_id)
    ELSE DrawOk(<<>>)

\* StoryDetail::draw_page: only self.story_id is looked up
StoryDetail_draw_page(p, r) ==
    IF ~r.ok THEN DrawErr(r.err, 0)
    ELSE IF ~ContainsKey(r.doc.stories, p.story_id) THEN DrawErr("story_not_found", p.story_id)
    ELSE DrawOk(<<>>)

\* Page::draw_page, dispatched on the page's type
draw_page(p, r) ==
    IF p.kind = "HomePage" THEN HomePage_draw_page(r)
    ELSE IF p.kind = "EpicDetail" THEN EpicDetail_draw_page(p, r)
    ELSE StoryDetail_draw_page(p, r)

----------------------------------------------------------------------------
(* State *)

VARIABLES
    db,      \* the document the store holds (MockDB::last_written_state / the JSON file)
    pre,     \* history: the document the store held when the last call started
    ret,     \* history: the last call, its arguments and its outcome
    issued,  \* history: the ids returned by successful creates, in call order
    deleted  \* history: the highest id whose delete_epic / delete_story call has
             \* returned Ok (0: none has)

\* the JSON file store, used by the specification SpecStore
VARIABLES
    file,       \* the file at JSONFileDatabase::file_path
    store_ret   \* history: the last call on the file store and the one before it

\* the navigator, used by the specification SpecNav
VARIABLES
    pages,     \* Navigator::pages, bottom first
    nav_ret    \* history: the last action dispatched, the prompt's answer, the
               \* outcome, and the page stack before the dispatch

\* a page on its own, used by the specification SpecPages
VARIABLES
    page,      \* a page value, built as the tests of pages.rs build one
    page_ret   \* history: the last draw_page / handle_input call on page, its
               \* input and its result

\* main's loop, used by the specification SpecLoop
VARIABLES
    pc,        \* where main is: "cycle" (top of the loop), "input" (page drawn),
               \* "dispatch" (handle_input gave an action), "done" (after break)
    pending,   \* the action handle_input returned, NoAction when none is pending
    drawn      \* history: the result of the last draw_page of the loop

repoVars == <<db, pre, ret, issued, deleted>>
storeVars == <<file, store_ret>>
navVars == <<pages, nav_ret>>
pageVars == <<page, page_ret>>
loopVars == <<pc, pending, drawn>>
vars == <<db, pre, ret, issued, deleted, file, store_ret, pages, nav_ret,
          page, page_ret, pc, pending, drawn>>

\* the record of a call
Call(op, epic_id, story_id, status, item, out) ==
    [op |-> op, epic_id |-> epic_id, story_id |-> story_id, status |-> status,
     item |-> item, ok |-> out.ok, id |-> out.id, wrote |-> out.wrote,
     err |-> out.err, err_id |-> out.err_id]

NoItem == [name |-> "", description |-> "", status |-> "Open"]

\* the record of a call on the file store: doc is the document read or
\* written, before what the file was when the call started; a read that comes
\* right after a write also carries that write: the document written and what
\* the write found
NoStoreCall ==
    [op |-> "none", ok |-> TRUE, err |-> "none", doc |-> DBStateNew, id |-> 0,
     before |-> "missing",
     after_write |-> FALSE, written |-> DBStateNew, written_over |-> "missing"]

StoreCall(op, ok, err, doc, id) ==
    LET after_write == op = "read" /\ store_ret.op = "write"
    IN  [op |-> op, ok |-> ok, err |-> err, doc |-> doc, id |-> id,
         before |-> IF ~file.exists THEN "missing"
                    ELSE IF read(file).ok THEN "document" ELSE "undecodable",
         after_write  |-> after_write,
         written      |-> IF after_write THEN store_ret.doc ELSE DBStateNew,
         written_over |-> IF after_write THEN store_ret.before ELSE "missing"]

\* the repository on a MockDB holding the empty document
RepoInit ==
    /\ db = DBStateNew
    /\ pre = DBStateNew
    /\ ret = Call("none", 0, 0, "Open", NoItem, Success(DBStateNew, 0, FALSE))
    /\ issued = <<>>
    /\ deleted = 0

\* no call on the file store yet
StoreIdle ==
    store_ret = NoStoreCall

\* the record of a dispatch: answer is what the prompt returned ("" when no
\* prompt ran), called whether a repository operation was called, ok whether
\* handle_action returned Ok, before the page stack and doc the stored
\* document when it started
Dispatch(type, epic_id, story_id, answer, called, ok) ==
    [type |-> type, epic_id |-> epic_id, story_id |-> story_id, answer |-> answer,
     called |-> called, ok |-> ok, before |-> pages, doc |-> db]

\* the record of a call on a page: the input line (<<>> for draw_page), the
\* result, with the fields of both kinds of result, and doc, the stored
\* document at the call
PageCall(op, input, ok, err, err_id, action, rows) ==
    [op |-> op, input |-> input, ok |-> ok, err |-> err, err_id |-> err_id,
     action |-> action, rows |-> rows, doc |-> db]

\* no call on the page yet
PageIdle ==
    page_ret = PageCall("none", <<>>, TRUE, "none", 0, NoAction, <<>>)

\* main before the first turn of its loop
LoopIdle ==
    /\ pc = "cycle"
    /\ pending = NoAction
    /\ drawn = DrawOk(<<>>)

\* Navigator::new(db), nothing dispatched yet
NavInit ==
    /\ pages = NavigatorNew
    /\ nav_ret = [type |-> "none", epic_id |-> 0, story_id |-> 0, answer |-> "",
                  called |-> FALSE, ok |-> TRUE, before |-> NavigatorNew,
                  doc |-> DBStateNew]

Init ==
    /\ RepoInit
    /\ file = NoFile
    /\ StoreIdle
    /\ NavInit
    /\ page = HomePage
    /\ PageIdle
    /\ LoopIdle

\* what every call does around its body: read the store, run, leave the result
Return(op, epic_id, story_id, status, item, out) ==
    /\ pre' = db
    /\ db' = out.db
    /\ ret' = Call(op, epic_id, story_id, status, item, out)
    /\ issued' = IF out.ok /\ op \in {"create_epic", "create_story"}
                 THEN Append(issued, out.id) ELSE issued
    /\ deleted' = IF out.ok /\ op = "delete_epic" /\ epic_id > deleted THEN epic_id
                  ELSE IF out.ok /\ op = "delete_story" /\ story_id > deleted THEN story_id
                  ELSE deleted

CreateEpic ==
    /\ db.last_item_id < MaxId
    /\ \E name \in Names, description \in Descriptions :
         LET epic == EpicNew(name, description)
         IN  Return("create_epic", 0, 0, "Open", epic, create_epic(db, epic))
    /\ UNCHANGED storeVars
    /\ UNCHANGED navVars
    /\ UNCHANGED pageVars
    /\ UNCHANGED loopVars

CreateStory ==
    /\ \E name \in Names, description \in Descriptions, epic_id \in IdArgs :
         /\ ContainsKey(db.epics, epic_id) => db.last_item_id < MaxId
         /\ LET story == StoryNew(name, description)
            IN  Return("create_story", epic_id, 0, "Open", story, create_story(db, story, epic_id))
    /\ UNCHANGED storeVars
    /\ UNCHANGED navVars
    /\ UNCHANGED pageVars
    /\ UNCHANGED loopVars

DeleteEpic ==
    /\ \E epic_id \in IdArgs :
         Return("delete_epic", epic_id, 0, "Open", NoItem, delete_epic(db, epic_id))
    /\ UNCHANGED storeVars
    /\ UNCHANGED navVars
    /\ UNCHANGED pageVars
    /\ UNCHANGED loopVars

DeleteStory ==
    /\ \E epic_id \in IdArgs, story_id \in IdArgs :
         Return("delete_story", epic_id, story_id, "Open", NoItem,
                delete_story(db, epic_id, story_id))
    /\ UNCHANGED storeVars
    /\ UNCHANGED navVars
    /\ UNCHANGED pageVars
    /\ UNCHANGED loopVars

UpdateEpicStatus ==
    /\ \E epic_id \in IdArgs, status \in Status :
         Return("update_epic_status", epic_id, 0, status, NoItem,
                update_epic_status(db, epic_id, status))
    /\ UNCHANGED storeVars
    /\ UNCHANGED navVars
    /\ UNCHANGED pageVars
    /\ UNCHANGED loopVars

UpdateStoryStatus ==
    /\ \E story_id \in IdArgs, status \in Status :
         Return("update_story_status", 0, story_id, status, NoItem,
                update_story_status(db, story_id, status))
    /\ UNCHANGED storeVars
    /\ UNCHANGED navVars
    /\ UNCHANGED pageVars
    /\ UNCHANGED loopVars

Next ==
    \/ CreateEpic
    \/ CreateStory
    \/ DeleteEpic
    \/ DeleteStory
    \/ UpdateEpicStatus
    \/ UpdateStoryStatus

Spec == Init /\ [][Next]_vars

----------------------------------------------------------------------------
(* The JSON file store: JSONFileDatabase::read / write called directly, and *)
(* JiraDatabase::new(path) followed by create_epic on that file.            *)

\* create_epic on the file store stops at this counter value
MaxStoreId == 2

\* the documents handed to write: ids of one and of two digits, every status
StoreEpics ==
    {[name |-> "n1", description |-> "d1", status |-> st, stories |-> ss] :
        st \in Status, ss \in {<<>>, <<2, 12>>}}

StoreStories ==
    {[name |-> "n2", description |-> "d1", status |-> st] : st \in {"Open", "InProgress"}}

StoreDocs ==
    {[last_item_id |-> n, epics |-> es, stories |-> ss] :
        n \in {0, 12},
        es \in {<<>>} \cup UNION {[{id} -> StoreEpics] : id \in {1, 10}},
        ss \in {<<>>} \cup UNION {[{id} -> StoreStories] : id \in {2, 12}}}

\* texts that are JSON but not a DBState: a field missing, a field of the
\* wrong type, a map key that is no number, a bad status; and one that has a
\* field DBState does not know, which decodes
EmptyMap == JObj(<<>>)

TextOf(fields) ==
    JObj([k \in {Field(n) : n \in DOMAIN fields} |-> fields[k[1]]])

OddTexts ==
    { JGarbage,
      JNum(0),
      TextOf([last_item_id |-> JNum(0), stories |-> EmptyMap]),
      TextOf([last_item_id |-> JNum(0), epics |-> EmptyMap]),
      TextOf([epics |-> EmptyMap, stories |-> EmptyMap]),
      TextOf([last_item_id |-> JStr("0"), epics |-> EmptyMap, stories |-> EmptyMap]),
      TextOf([last_item_id |-> JNum(0 - 1), epics |-> EmptyMap, stories |-> EmptyMap]),
      TextOf([last_item_id |-> JNum(0), epics |-> JArr(<<>>), stories |-> EmptyMap]),
      TextOf([last_item_id |-> JNum(1),
              epics |-> JObj([k \in {<<"x">>} |-> EncodeEpic(EpicNew("n1", "d1"))]),
              stories |-> EmptyMap]),
      TextOf([last_item_id |-> JNum(2), epics |-> EmptyMap,
              stories |-> JObj([k \in {U32ToString(2)} |->
                                  TextOf([name |-> JStr("n2"), description |-> JStr("d1"),
                                          status |-> JStr("IN PROGRESS")])])]),
      TextOf([last_item_id |-> JNum(0), epics |-> EmptyMap, stories |-> EmptyMap,
              version |-> JNum(1)]) }

\* the files the store can find at its path
StoreFiles ==
    {NoFile, [exists |-> TRUE, texts |-> <<>>]}
        \cup {[exists |-> TRUE, texts |-> <<t>>] : t \in OddTexts}
        \cup {write(NoFile, d) : d \in StoreDocs}

StoreInit ==
    /\ RepoInit
    /\ file \in StoreFiles
    /\ StoreIdle
    /\ NavInit
    /\ page = HomePage
    /\ PageIdle
    /\ LoopIdle

\* JSONFileDatabase::read
StoreRead ==
    /\ LET r == read(file)
       IN  store_ret' = StoreCall("read", r.ok, r.err, r.doc, 0)
    /\ UNCHANGED file
    /\ UNCHANGED repoVars
    /\ UNCHANGED navVars
    /\ UNCHANGED pageVars
    /\ UNCHANGED loopVars

\* JSONFileDatabase::write
StoreWrite ==
    /\ \E data \in StoreDocs :
         /\ file' = write(file, data)
         /\ store_ret' = StoreCall("write", TRUE, "none", data, 0)
    /\ UNCHANGED repoVars
    /\ UNCHANGED navVars
    /\ UNCHANGED pageVars
    /\ UNCHANGED loopVars

\* JiraDatabase::new(path).create_epic(epic): database.read()?, the body,
\* database.write(&db_state)?
StoreCreateEpic ==
    /\ LET r == read(file)
       IN  IF ~r.ok
           THEN /\ store_ret' = StoreCall("create_epic", FALSE, r.err, r.doc, 0)
                /\ UNCHANGED file
           ELSE /\ r.doc.last_item_id < MaxStoreId
                /\ \E name \in Names, description \in Descriptions :
                     LET out == create_epic(r.doc, EpicNew(name, description))
                     IN  /\ file' = write(file, out.db)
                         /\ store_ret' = StoreCall("create_epic", out.ok, out.err, out.db, out.id)
    /\ UNCHANGED repoVars
    /\ UNCHANGED navVars
    /\ UNCHANGED pageVars
    /\ UNCHANGED loopVars

StoreNext ==
    \/ StoreRead
    \/ StoreWrite
    \/ StoreCreateEpic

SpecStore == StoreInit /\ [][StoreNext]_vars

----------------------------------------------------------------------------
(* The navigator: Navigator::handle_action dispatched with any action, as   *)
(* the tests of navigator.rs do, on a repository that holds a MockDB.       *)

\* pushes stop at this stack depth
MaxPages == 3

\* the ids the dispatched actions carry (navigator.rs tests: epic 1, story 2)
NavEpicIds == {1}
NavStoryIds == {2}

\* what the create prompts return
PromptEpic == EpicNew("n1", "d1")
PromptStory == StoryNew("n2", "d1")

\* what (self.prompts.update_status)() returns: None or Some(status)
StatusAnswers == {"None"} \cup Status

Dispatched(type, epic_id, story_id, answer, called, ok, new_pages) ==
    /\ pages' = new_pages
    /\ nav_ret' = Dispatch(type, epic_id, story_id, answer, called, ok)
    /\ UNCHANGED storeVars
    /\ UNCHANGED pageVars
    /\ UNCHANGED loopVars

HandleNavigateToEpicDetail ==
    /\ Len(pages) < MaxPages
    /\ \E epic_id \in NavEpicIds :
         Dispatched("NavigateToEpicDetail", epic_id, 0, "", FALSE, TRUE,
                    PushPage(pages, EpicDetail(epic_id)))
    /\ UNCHANGED repoVars

HandleNavigateToStoryDetail ==
    /\ Len(pages) < MaxPages
    /\ \E epic_id \in NavEpicIds, story_id \in NavStoryIds :
         Dispatched("NavigateToStoryDetail", epic_id, story_id, "", FALSE, TRUE,
                    PushPage(pages, StoryDetail(epic_id, story_id)))
    /\ UNCHANGED repoVars

HandleNavigateToPreviousPage ==
    /\ Dispatched("NavigateToPreviousPage", 0, 0, "", FALSE, TRUE, PopPage(pages))
    /\ UNCHANGED repoVars

HandleCreateEpic ==
    /\ db.last_item_id < MaxId
    /\ LET out == create_epic(db, PromptEpic)
       IN  /\ Return("create_epic", 0, 0, "Open", PromptEpic, out)
           /\ Dispatched("CreateEpic", 0, 0, "", TRUE, out.ok, pages)

HandleUpdateEpicStatus ==
    \E epic_id \in NavEpicIds, answer \in StatusAnswers :
      IF answer # "None"
      THEN LET out == update_epic_status(db, epic_id, answer)
           IN  /\ Return("update_epic_status", epic_id, 0, answer, NoItem, out)
               /\ Dispatched("UpdateEpicStatus", epic_id, 0, answer, TRUE, out.ok, pages)
      ELSE /\ Dispatched("UpdateEpicStatus", epic_id, 0, answer, FALSE, TRUE, pages)
           /\ UNCHANGED repoVars

\* DeleteEpic that pops once the user has confirmed, whatever delete_epic returns
HandleDeleteEpic_pop_when_confirmed ==
    \E epic_id \in NavEpicIds, confirmed \in BOOLEAN :
      IF confirmed
      THEN LET out == delete_epic(db, epic_id)
           IN  /\ Return("delete_epic", epic_id, 0, "Open", NoItem, out)
               /\ Dispatched("DeleteEpic", epic_id, 0, "yes", TRUE, out.ok, PopPage(pages))
      ELSE /\ Dispatched("DeleteEpic", epic_id, 0, "no", FALSE, TRUE, pages)
           /\ UNCHANGED repoVars

HandleDeleteEpic ==
    \E epic_id \in NavEpicIds, confirmed \in BOOLEAN :
      IF confirmed
      THEN LET out == delete_epic(db, epic_id)
           IN  /\ Return("delete_epic", epic_id, 0, "Open", NoItem, out)
               /\ Dispatched("DeleteEpic", epic_id, 0, "yes", TRUE, out.ok,
                             IF out.ok THEN PopPage(pages) ELSE pages)
      ELSE /\ Dispatched("DeleteEpic", epic_id, 0, "no", FALSE, TRUE, pages)
           /\ UNCHANGED repoVars

\* CreateStory that leaves the page when create_story fails
HandleCreateStory_leaving_on_failure ==
    \E epic_id \in NavEpicIds :
      /\ ContainsKey(db.epics, epic_id) => db.last_item_id < MaxId
      /\ LET out == create_story(db, PromptStory, epic_id)
         IN  /\ Return("create_story", epic_id, 0, "Open", PromptStory, out)
             /\ Dispatched("CreateStory", epic_id, 0, "", TRUE, out.ok,
                           IF out.ok THEN pages ELSE PopPage(pages))

HandleCreateStory ==
    \E epic_id \in NavEpicIds :
      /\ ContainsKey(db.epics, epic_id) => db.last_item_id < MaxId
      /\ LET out == create_story(db, PromptStory, epic_id)
         IN  /\ Return("create_story", epic_id, 0, "Open", PromptStory, out)
             /\ Dispatched("CreateStory", epic_id, 0, "", TRUE, out.ok, pages)

HandleUpdateStoryStatus ==
    \E story_id \in NavStoryIds, answer \in StatusAnswers :
      IF answer # "None"
      THEN LET out == update_story_status(db, story_id, answer)
           IN  /\ Return("update_story_status", 0, story_id, answer, NoItem, out)
               /\ Dispatched("UpdateStoryStatus", 0, story_id, answer, TRUE, out.ok, pages)
      ELSE /\ Dispatched("UpdateStoryStatus", 0, story_id, answer, FALSE, TRUE, pages)
           /\ UNCHANGED repoVars

HandleDeleteStory ==
    \E epic_id \in NavEpicIds, story_id \in NavStoryIds, confirmed \in BOOLEAN :
      IF confirmed
      THEN LET out == delete_story(db, epic_id, story_id)
           IN  /\ Return("delete_story", epic_id, story_id, "Open", NoItem, out)
               /\ Dispatched("DeleteStory", epic_id, story_id, "yes", TRUE, out.ok,
                             IF out.ok THEN PopPage(pages) ELSE pages)
      ELSE /\ Dispatched("DeleteStory", epic_id, story_id, "no", FALSE, TRUE, pages)
           /\ UNCHANGED repoVars

HandleExit ==
    /\ Dispatched("Exit", 0, 0, "", FALSE, TRUE, ClearPages(pages))
    /\ UNCHANGED repoVars

NavNext ==
    \/ HandleNavigateToEpicDetail
    \/ HandleNavigateToStoryDetail
    \/ HandleNavigateToPreviousPage
    \/ HandleCreateEpic
    \/ HandleUpdateEpicStatus
    \/ HandleDeleteEpic
    \/ HandleCreateStory
    \/ HandleUpdateStoryStatus
    \/ HandleDeleteStory
    \/ HandleExit

SpecNav == Init /\ [][NavNext]_vars

----------------------------------------------------------------------------
(* The pages on their own: a page built with any ids over a repository that *)
(* holds a MockDB, then draw_page / handle_input called on it, as the tests *)
(* of interface/pages.rs do.                                                *)

\* the ids a page is built with: every id that can exist, and one that never does
PageValues ==
    {HomePage}
        \cup {EpicDetail(e) : e \in IdArgs}
        \cup {StoryDetail(e, st) : e \in IdArgs, st \in IdArgs}

\* the input lines: the recognised letters, the empty line, ids that can exist,
\* 999, junk, a letter with trailing characters or a newline, and numbers
\* spelt with a sign, a leading zero, a blank, a letter or beyond u32
InputLines ==
    { <<"q">>, <<"c">>, <<"p">>, <<"u">>, <<"d">>, <<>>,
      <<"9", "9", "9">>,
      <<"j", "9", "8", "3", "f", "2", "j">>,
      <<"q", "9", "8", "3", "f", "2", "j">>,
      <<"p", "9", "8", "3", "f", "2", "j">>,
      <<"q", "\n">>, <<"p", "\n">>, <<"c", " ">>,
      <<"0", "1">>, <<"+", "1">>, <<"-", "1">>, <<"+">>,
      <<"1", " ">>, <<" ", "1">>, <<"1", "q">>,
      <<"4", "2", "9", "4", "9", "6", "7", "2", "9", "6">> }
        \cup {U32ToString(id) : id \in IdArgs}

\* MockDB::read: always Ok(last_written_state)
MockRead == ReadOk(db)

PagesInit ==
    /\ RepoInit
    /\ file = NoFile
    /\ StoreIdle
    /\ NavInit
    /\ page \in PageValues
    /\ PageIdle
    /\ LoopIdle

\* db.create_epic(Epic::new(..)) of the tests
PagesCreateEpic ==
    /\ db.last_item_id < MaxId
    /\ Return("create_epic", 0, 0, "Open", PromptEpic, create_epic(db, PromptEpic))
    /\ UNCHANGED storeVars
    /\ UNCHANGED navVars
    /\ UNCHANGED pageVars
    /\ UNCHANGED loopVars

\* db.create_story(Story::new(..), epic_id) of the tests, on an epic created before
PagesCreateStory ==
    /\ db.last_item_id < MaxId
    /\ \E epic_id \in DOMAIN db.epics :
         Return("create_story", epic_id, 0, "Open", PromptStory,
                create_story(db, PromptStory, epic_id))
    /\ UNCHANGED storeVars
    /\ UNCHANGED navVars
    /\ UNCHANGED pageVars
    /\ UNCHANGED loopVars

\* page.draw_page()
PageDraw ==
    /\ LET res == draw_page(page, MockRead)
       IN  page_ret' = PageCall("draw_page", <<>>, res.ok, res.err, res.err_id,
                                NoAction, res.rows)
    /\ UNCHANGED page
    /\ UNCHANGED repoVars
    /\ UNCHANGED storeVars
    /\ UNCHANGED navVars
    /\ UNCHANGED loopVars

\* handle_input that creates the epic itself when the line asks for one
PageHandleInput_creating ==
    /\ \E input \in InputLines :
         LET res == handle_input(page, MockRead, input)
         IN  /\ page_ret' = PageCall("handle_input", input, res.ok, res.err, 0,
                                     res.action, <<>>)
             /\ IF res.action.type = "CreateEpic" /\ db.last_item_id < MaxId
                THEN Return("create_epic", 0, 0, "Open", PromptEpic,
                            create_epic(db, PromptEpic))
                ELSE UNCHANGED repoVars
    /\ UNCHANGED page
    /\ UNCHANGED storeVars
    /\ UNCHANGED navVars
    /\ UNCHANGED loopVars

\* page.handle_input(input)
PageHandleInput ==
    /\ \E input \in InputLines :
         LET res == handle_input(page, MockRead, input)
         IN  page_ret' = PageCall("handle_input", input, res.ok, res.err, 0,
                                  res.action, <<>>)
    /\ UNCHANGED page
    /\ UNCHANGED repoVars
    /\ UNCHANGED storeVars
    /\ UNCHANGED navVars
    /\ UNCHANGED loopVars

PagesNext ==
    \/ PagesCreateEpic
    \/ PagesCreateStory
    \/ PageDraw
    \/ PageHandleInput

SpecPages == PagesInit /\ [][PagesNext]_vars

----------------------------------------------------------------------------
(* main.rs: the loop that draws the current page, reads a line, hands it to *)
(* the page and dispatches the action it returns, on a store that can be    *)
(* read and written.                                                        *)

Whitespace == {" ", "\n", "\t", "\r"}

RECURSIVE TrimStart(_)
TrimStart(line) ==
    IF line # <<>> /\ line[1] \in Whitespace THEN TrimStart(Tail(line)) ELSE line

RECURSIVE TrimEnd(_)
TrimEnd(line) ==
    IF line # <<>> /\ line[Len(line)] \in Whitespace
    THEN TrimEnd(SubSeq(line, 1, Len(line) - 1)) ELSE line

\* str::trim
Trim(line) == TrimEnd(TrimStart(line))

\* what read_line() returns: a letter of the menus, an id, nothing, junk,
\* each with its line end, and an id between blanks
LoopLines ==
    { <<"q", "\n">>, <<"c", "\n">>, <<"p", "\n">>, <<"u", "\n">>, <<"d", "\n">>,
      <<"\n">>, <<"q", "1", "\n">>, <<" ", "1", " ", "\n">> }
        \cup {Append(U32ToString(id), "\n") : id \in IdArgs}

\* what the prompt of an action returns: the confirmation of a delete, the
\* optional status of an update, nothing the dispatch depends on otherwise
Answers(a) ==
    IF a.type \in {"DeleteEpic", "DeleteStory"} THEN {"yes", "no"}
    ELSE IF a.type \in {"UpdateEpicStatus", "UpdateStoryStatus"} THEN StatusAnswers
    ELSE {""}

\* self.database.read() of the pages
LoopRead == ReadOk(db)

\* a delete arm that never pops
AfterDelete_staying(ps, out) == ps

\* the end of the delete arms: the ? on the repository's result, then the pop
AfterDelete(ps, out) ==
    IF out.ok THEN PopPage(ps) ELSE ps

\* the result of handle_action: the page stack it leaves, whether it called
\* the repository, and that call (op, status, item, out)
Handled(new_pages, called, op, status, item, out) ==
    [pages |-> new_pages, called |-> called, op |-> op, status |-> status,
     item |-> item, out |-> out, ok |-> out.ok]

\* an arm that calls no repository operation and returns Ok(())
Unhandled(new_pages, d) ==
    Handled(new_pages, FALSE, "none", "Open", NoItem, Success(d, 0, FALSE))

\* Navigator::handle_action(a) on the page stack ps and the stored document d,
\* answer being what the arm's prompt returns
handle_action(ps, d, a, answer) ==
    IF a.type = "NavigateToEpicDetail"
    THEN Unhandled(PushPage(ps, EpicDetail(a.epic_id)), d)
    ELSE IF a.type = "NavigateToStoryDetail"
    THEN Unhandled(PushPage(ps, StoryDetail(a.epic_id, a.story_id)), d)
    ELSE IF a.type = "NavigateToPreviousPage"
    THEN Unhandled(PopPage(ps), d)
    ELSE IF a.type = "CreateEpic"
    THEN Handled(ps, TRUE, "create_epic", "Open", PromptEpic, create_epic(d, PromptEpic))
    ELSE IF a.type = "UpdateEpicStatus"
    THEN IF answer # "None"
         THEN Handled(ps, TRUE, "update_epic_status", answer, NoItem,
                      update_epic_status(d, a.epic_id, answer))
         ELSE Unhandled(ps, d)
    ELSE IF a.type = "DeleteEpic"
    THEN IF answer = "yes"
         THEN LET out == delete_epic(d, a.epic_id)
              IN  Handled(AfterDelete(ps, out), TRUE, "delete_epic", "Open", NoItem, out)
         ELSE Unhandled(ps, d)
    ELSE IF a.type = "CreateStory"
    THEN Handled(ps, TRUE, "create_story", "Open", PromptStory,
                 create_story(d, PromptStory, a.epic_id))
    ELSE IF a.type = "UpdateStoryStatus"
    THEN IF answer # "None"
         THEN Handled(ps, TRUE, "update_story_status", answer, NoItem,
                      update_story_status(d, a.story_id, answer))
         ELSE Unhandled(ps, d)
    ELSE IF a.type = "DeleteStory"
    THEN IF answer = "yes"
         THEN LET out == delete_story(d, a.epic_id, a.story_id)
              IN  Handled(AfterDelete(ps, out), TRUE, "delete_story", "Open", NoItem, out)
         ELSE Unhandled(ps, d)
    ELSE Unhandled(ClearPages(ps), d)

\* if let Some(page) = navigator.get_current_page() { page.draw_page() .. }:
\* an error is printed and the loop goes on to read the input
LoopDraw ==
    /\ pc = "cycle"
    /\ get_current_page(pages).some
    /\ drawn' = draw_page(get_current_page(pages).page, LoopRead)
    /\ pc' = "input"
    /\ UNCHANGED pending
    /\ UNCHANGED repoVars
    /\ UNCHANGED storeVars
    /\ UNCHANGED navVars
    /\ UNCHANGED pageVars

\* } else { break; }
LoopBreak ==
    /\ pc = "cycle"
    /\ ~get_current_page(pages).some
    /\ pc' = "done"
    /\ UNCHANGED <<pending, drawn>>
    /\ UNCHANGED repoVars
    /\ UNCHANGED storeVars
    /\ UNCHANGED navVars
    /\ UNCHANGED pageVars

\* page.handle_input(read_line().trim()): an error is printed, Ok(None)
\* starts the next turn, Ok(Some(action)) goes on to the dispatch
LoopInput ==
    /\ pc = "input"
    /\ \E line \in LoopLines :
         LET res == handle_input(get_current_page(pages).page, LoopRead, Trim(line))
         IN  IF res.ok /\ res.action # NoAction
             THEN pc' = "dispatch" /\ pending' = res.action
             ELSE pc' = "cycle" /\ pending' = NoAction
    /\ UNCHANGED drawn
    /\ UNCHANGED repoVars
    /\ UNCHANGED storeVars
    /\ UNCHANGED navVars
    /\ UNCHANGED pageVars

\* navigator.handle_action(action): an error is printed, the loop goes on
LoopDispatch ==
    /\ pc = "dispatch"
    /\ pending.type = "CreateEpic" => db.last_item_id < MaxId
    /\ (pending.type = "CreateStory" /\ ContainsKey(db.epics, pending.epic_id)) =>
          db.last_item_id < MaxId
    /\ \E answer \in Answers(pending) :
         LET res == handle_action(pages, db, pending, answer)
         IN  /\ IF res.called
                THEN Return(res.op, pending.epic_id, pending.story_id, res.status,
                            res.item, res.out)
                ELSE UNCHANGED repoVars
             /\ pages' = res.pages
             /\ nav_ret' = Dispatch(pending.type, pending.epic_id, pending.story_id,
                                    answer, res.called, res.ok)
    /\ pc' = "cycle"
    /\ pending' = NoAction
    /\ UNCHANGED drawn
    /\ UNCHANGED storeVars
    /\ UNCHANGED pageVars

LoopNext ==
    \/ LoopDraw
    \/ LoopBreak
    \/ LoopInput
    \/ LoopDispatch

SpecLoop == Init /\ [][LoopNext]_vars

----------------------------------------------------------------------------
(* Properties of the repository operations *)

Creates == {"create_epic", "create_story"}
Mutating == {"create_story", "delete_epic", "delete_story",
             "update_epic_status", "update_story_status"}

\* every epic but e, and every story but s, is the same in documents a and b
SameEpicsBut(a, b, e) ==
    /\ (DOMAIN a.epics) \ {e} = (DOMAIN b.epics) \ {e}
    /\ \A x \in (DOMAIN a.epics) \ {e} : a.epics[x] = b.epics[x]

SameStoriesBut(a, b, s) ==
    /\ (DOMAIN a.stories) \ {s} = (DOMAIN b.stories) \ {s}
    /\ \A x \in (DOMAIN a.stories) \ {s} : a.stories[x] = b.stories[x]

\* C1: the ids returned by successful create_epic / create_story calls are
\* strictly increasing in call order (hence never returned twice), whatever
\* deletes and updates are interleaved.
C1_IdsStrictlyIncreasing ==
    \A i, j \in DOMAIN issued : i < j => issued[i] < issued[j]

\* a create returned its id after an earlier create and a successful delete
C1_Witness ==
    /\ ret.op \in Creates /\ ret.ok
    /\ Len(issued) >= 2
    /\ deleted # 0

\* C2: every id listed in an epic's stories sequence is a key of the stories
\* map, also after delete_story(e, s) with an epic e that does not own s.
C2_NoDanglingStoryReference ==
    \A e \in DOMAIN db.epics :
        \A s \in Elems(db.epics[e].stories) : s \in DOMAIN db.stories

\* delete_story(e, s) returned Ok for a story s that another epic owns
C2_Witness ==
    /\ ret.op = "delete_story" /\ ret.ok
    /\ ret.story_id \notin Elems(pre.epics[ret.epic_id].stories)
    /\ \E o \in DOMAIN pre.epics : ret.story_id \in Elems(pre.epics[o].stories)

\* C3: after delete_epic(e) returns Ok, the epics map no longer contains e and
\* the stories map contains none of the ids that were in e's stories.
C3_DeleteEpicCascades ==
    (ret.op = "delete_epic" /\ ret.ok) =>
        /\ ret.epic_id \notin DOMAIN db.epics
        /\ \A s \in Elems(pre.epics[ret.epic_id].stories) : s \notin DOMAIN db.stories

\* C4: after delete_story(e, s) returns Ok, the stories map no longer contains
\* s and epic e's stories sequence no longer contains s.
C4_DeleteStoryRemoves ==
    (ret.op = "delete_story" /\ ret.ok) =>
        /\ ret.story_id \notin DOMAIN db.stories
        /\ ret.epic_id \in DOMAIN db.epics
              => ret.story_id \notin Elems(db.epics[ret.epic_id].stories)

\* C5: after update_epic_status(e, st) returns Ok, epics[e].status = st; after
\* update_story_status(s, st) returns Ok, stories[s].status = st.
C5_UpdateSetsStatus ==
    /\ (ret.op = "update_epic_status" /\ ret.ok) =>
          /\ ret.epic_id \in DOMAIN db.epics
          /\ db.epics[ret.epic_id].status = ret.status
    /\ (ret.op = "update_story_status" /\ ret.ok) =>
          /\ ret.story_id \in DOMAIN db.stories
          /\ db.stories[ret.story_id].status = ret.status

\* C6: create_epic(epic) always succeeds: it increases last_item_id by exactly
\* 1, returns the new counter value, stores the given epic under that id and
\* leaves every other epic and every story unchanged; on the empty document
\* the first call returns 1.
C6_CreateEpic ==
    ret.op = "create_epic" =>
        /\ ret.ok /\ ret.wrote
        /\ db.last_item_id = pre.last_item_id + 1
        /\ ret.id = db.last_item_id
        /\ ret.id \in DOMAIN db.epics
        /\ db.epics[ret.id] = ret.item
        /\ DOMAIN db.epics = (DOMAIN pre.epics) \cup {ret.id}
        /\ SameEpicsBut(pre, db, ret.id)
        /\ db.stories = pre.stories
        /\ pre.last_item_id = 0 => ret.id = 1

\* create_epic returned on a document that already held an epic and a story
C6_Witness ==
    /\ ret.op = "create_epic" /\ ret.ok
    /\ pre.epics # <<>> /\ pre.stories # <<>>

\* C7: when epic_id exists, create_story(story, epic_id) increases
\* last_item_id by exactly 1, returns the new value, stores the story under
\* that id and appends the id as the last element of the owning epic's
\* stories, leaving the earlier elements and every other epic unchanged.
C7_CreateStory ==
    (ret.op = "create_story" /\ ret.epic_id \in DOMAIN pre.epics) =>
        /\ ret.ok /\ ret.wrote
        /\ db.last_item_id = pre.last_item_id + 1
        /\ ret.id = db.last_item_id
        /\ ret.id \in DOMAIN db.stories
        /\ db.stories[ret.id] = ret.item
        /\ ret.epic_id \in DOMAIN db.epics
        /\ db.epics[ret.epic_id].stories = Append(pre.epics[ret.epic_id].stories, ret.id)
        /\ SameEpicsBut(pre, db, ret.epic_id)
        /\ DOMAIN db.epics = DOMAIN pre.epics

\* create_story returned its id for an epic that already owned a story
C7_Witness ==
    /\ ret.op = "create_story" /\ ret.ok
    /\ Len(pre.epics[ret.epic_id].stories) >= 1

\* C8: create_story(s, epic_id) fails, with the not-found error naming
\* epic_id, if and only if epic_id is not a key of the epics map at the call.
C8_CreateStoryNotFoundIff ==
    ret.op = "create_story" =>
        /\ (~ret.ok) <=> (ret.epic_id \notin DOMAIN pre.epics)
        /\ (~ret.ok) => (ret.err = "epic_not_found" /\ ret.err_id = ret.epic_id)

\* create_story failed for an id that is a key of the stories map, not of epics
C8_Witness ==
    /\ ret.op = "create_story" /\ ~ret.ok
    /\ ret.epic_id \in DOMAIN pre.stories

\* C9: when create_story, delete_epic, delete_story, update_epic_status or
\* update_story_status returns an error, nothing was written and the stored
\* document, last_item_id included, is the one before the call.
C9_FailureLeavesDocument ==
    (ret.op \in Mutating /\ ~ret.ok) => (~ret.wrote /\ db = pre)

\* create_story failed on a document that holds epics and stories
C9_Witness ==
    /\ ret.op = "create_story" /\ ~ret.ok
    /\ pre.last_item_id >= 2
    /\ pre.stories # <<>>

\* C10: a successful update_epic_status or update_story_status leaves the
\* target's name, description and (for an epic) stories, every other epic,
\* every other story and last_item_id as they were before the call.
C10_UpdateFrame ==
    /\ (ret.op = "update_epic_status" /\ ret.ok) =>
          /\ db.last_item_id = pre.last_item_id
          /\ db.stories = pre.stories
          /\ DOMAIN db.epics = DOMAIN pre.epics
          /\ SameEpicsBut(pre, db, ret.epic_id)
          /\ db.epics[ret.epic_id].name = pre.epics[ret.epic_id].name
          /\ db.epics[ret.epic_id].description = pre.epics[ret.epic_id].description
          /\ db.epics[ret.epic_id].stories = pre.epics[ret.epic_id].stories
    /\ (ret.op = "update_story_status" /\ ret.ok) =>
          /\ db.last_item_id = pre.last_item_id
          /\ db.epics = pre.epics
          /\ DOMAIN db.stories = DOMAIN pre.stories
          /\ SameStoriesBut(pre, db, ret.story_id)
          /\ db.stories[ret.story_id].name = pre.stories[ret.story_id].name
          /\ db.stories[ret.story_id].description = pre.stories[ret.story_id].description

\* update_epic_status returned Ok, with a new status, for an epic that owns a story
C10_Witness ==
    /\ ret.op = "update_epic_status" /\ ret.ok
    /\ Len(pre.epics[ret.epic_id].stories) >= 1
    /\ ret.status # pre.epics[ret.epic_id].status

\* C11: every key of the epics map and of the stories map is at least 1 and
\* at most last_item_id, and no operation decreases last_item_id.
C11_KeysWithinCounter ==
    /\ \A k \in (DOMAIN db.epics) \cup (DOMAIN db.stories) :
          1 <= k /\ k <= db.last_item_id
    /\ pre.last_item_id <= db.last_item_id

\* create_story returned the highest id of a document holding epics and stories
C11_Witness ==
    /\ ret.op = "create_story" /\ ret.ok
    /\ ret.id = db.last_item_id /\ ret.id >= 3
    /\ ret.id \in DOMAIN db.stories

Deletes == {"delete_epic", "delete_story"}

\* C12: a successful delete_epic or delete_story leaves last_item_id
\* unchanged, and a later create returns an id above every id whose delete
\* returned Ok (so none of them is issued again).
C12_DeleteKeepsCounter ==
    /\ (ret.op \in Deletes /\ ret.ok) => db.last_item_id = pre.last_item_id
    /\ (ret.op \in Creates /\ ret.ok) => ret.id > deleted

\* a create returned its id after the delete of the latest entity had returned Ok
C12_Witness ==
    /\ ret.op \in Creates /\ ret.ok
    /\ deleted = pre.last_item_id /\ deleted >= 1

\* C13: delete_story(epic_id, story_id) fails naming the epic when epic_id is
\* absent (whether or not story_id exists), fails naming the story when the
\* epic exists and story_id is not a key of the stories map, and succeeds
\* otherwise.
C13_DeleteStoryErrors ==
    ret.op = "delete_story" =>
        IF ret.epic_id \notin DOMAIN pre.epics
        THEN ~ret.ok /\ ret.err = "epic_not_found" /\ ret.err_id = ret.epic_id
        ELSE IF ret.story_id \notin DOMAIN pre.stories
        THEN ~ret.ok /\ ret.err = "story_not_found" /\ ret.err_id = ret.story_id
        ELSE ret.ok

\* delete_story failed on an absent epic although the story exists
C13_Witness ==
    /\ ret.op = "delete_story" /\ ~ret.ok
    /\ ret.epic_id \notin DOMAIN pre.epics
    /\ ret.story_id \in DOMAIN pre.stories

\* C14: delete_epic(epic_id) and update_epic_status(epic_id, _) fail, with
\* the not-found error, exactly when epic_id is not a key of the epics map;
\* update_story_status(story_id, _) fails exactly when story_id is not a key
\* of the stories map.
C14_NotFoundIff ==
    /\ ret.op \in {"delete_epic", "update_epic_status"} =>
          /\ (~ret.ok) <=> (ret.epic_id \notin DOMAIN pre.epics)
          /\ (~ret.ok) => (ret.err = "epic_not_found" /\ ret.err_id = ret.epic_id)
    /\ ret.op = "update_story_status" =>
          /\ (~ret.ok) <=> (ret.story_id \notin DOMAIN pre.stories)
          /\ (~ret.ok) => (ret.err = "story_not_found" /\ ret.err_id = ret.story_id)

\* update_story_status failed for an id that is a key of the epics map
C14_Witness ==
    /\ ret.op = "update_story_status" /\ ~ret.ok
    /\ ret.story_id \in DOMAIN pre.epics

\* the epics whose stories hold s, and the positions of s in a sequence
OwnersOf(d, s) == {e \in DOMAIN d.epics : s \in Elems(d.epics[e].stories)}
PositionsOf(seq, s) == {i \in DOMAIN seq : seq[i] = s}

\* C32: after any sequence of repository operations from the empty document,
\* every key of the stories map is in the stories of exactly one epic, exactly
\* once there, and no stories sequence holds an id twice.
C32_StoryOwnedByOneEpic ==
    /\ \A s \in DOMAIN db.stories :
          /\ Cardinality(OwnersOf(db, s)) = 1
          /\ \A e \in OwnersOf(db, s) :
                Cardinality(PositionsOf(db.epics[e].stories, s)) = 1
    /\ \A e \in DOMAIN db.epics : \A i, j \in DOMAIN db.epics[e].stories :
          db.epics[e].stories[i] = db.epics[e].stories[j] => i = j

\* two epics, a story in the second one, and a delete_story that returned Ok
C32_Witness ==
    /\ Cardinality(DOMAIN db.epics) = 2
    /\ \E s \in DOMAIN db.stories : OwnersOf(db, s) = {2}
    /\ ret.op = "delete_story"
    /\ ret.ok

----------------------------------------------------------------------------
(* Properties of the JSON file store (specification SpecStore) *)

\* C15: write(s) followed by read() returns a document equal to s, whatever
\* the file held before the write.
C15_WriteReadRoundTrip ==
    (store_ret.op = "read" /\ store_ret.after_write) =>
        /\ store_ret.ok
        /\ store_ret.doc = store_ret.written

\* a read returned after a write, over an undecodable file, of a document with
\* a two-digit key and an InProgress status
C15_Witness ==
    /\ store_ret.op = "read" /\ store_ret.after_write
    /\ store_ret.written_over = "undecodable"
    /\ 10 \in DOMAIN store_ret.written.epics
    /\ store_ret.written.epics[10].status = "InProgress"
    /\ store_ret.written.epics[10].stories = <<2, 12>>

\* C16: read() returns an error when the file does not exist and when it
\* exists but does not decode as a DBState (no single JSON object, or the
\* epics or the stories key missing); it returns the document only when the
\* file exists and holds it.
C16_ReadErrors ==
    store_ret.op = "read" =>
        /\ ~file.exists => (~store_ret.ok /\ store_ret.err = "io")
        /\ (file.exists /\ Len(file.texts) # 1) =>
              (~store_ret.ok /\ store_ret.err = "decode")
        /\ (file.exists /\ Len(file.texts) = 1) =>
              LET text == file.texts[1]
              IN  /\ (\/ text.t # "obj"
                      \/ Field("epics") \notin DOMAIN text.o
                      \/ Field("stories") \notin DOMAIN text.o)
                        => (~store_ret.ok /\ store_ret.err = "decode")
                  /\ store_ret.ok =>
                        \A k \in {Field("last_item_id"), Field("epics"), Field("stories")} :
                            Encode(store_ret.doc).o[k] = text.o[k]
        /\ store_ret.ok => (file.exists /\ Len(file.texts) = 1)

\* a read failed on a file whose JSON object has the epics key but no stories key
C16_Witness ==
    /\ store_ret.op = "read" /\ ~store_ret.ok
    /\ file.exists /\ Len(file.texts) = 1
    /\ file.texts[1].t = "obj"
    /\ Field("epics") \in DOMAIN file.texts[1].o
    /\ Field("stories") \notin DOMAIN file.texts[1].o

\* C17: when no file exists, the first repository operation works on the
\* empty document (created with last_item_id 0) instead of failing: a first
\* create_epic succeeds, returns 1 and leaves the file in place.
C17_MissingStoreIsCreated ==
    (store_ret.op = "create_epic" /\ store_ret.before = "missing") =>
        /\ store_ret.ok
        /\ store_ret.id = 1
        /\ file.exists

----------------------------------------------------------------------------
(* Properties of the navigator (specification SpecNav) *)

\* C18: a newly constructed Navigator has a page stack of exactly one page,
\* a Home page, and that page is the current page.
C18_StartsOnHomePage ==
    nav_ret.type = "none" =>
        /\ Len(pages) = 1
        /\ pages[1].kind = "HomePage"
        /\ get_current_page(pages).some
        /\ get_current_page(pages).page = pages[1]

\* the navigator right after Navigator::new, nothing dispatched
C18_Witness ==
    /\ nav_ret.type = "none"
    /\ pages = nav_ret.before
    /\ ret.op = "none"

\* C19: NavigateToPreviousPage on a non-empty stack removes exactly the top
\* page (the count decreases by 1, the page beneath becomes current, and
\* there is no current page when only one page was left); on an empty stack
\* it succeeds and leaves the stack empty.
C19_PreviousPagePops ==
    nav_ret.type = "NavigateToPreviousPage" =>
        /\ nav_ret.ok
        /\ IF nav_ret.before # <<>>
           THEN /\ Len(pages) = Len(nav_ret.before) - 1
                /\ \A i \in DOMAIN pages : pages[i] = nav_ret.before[i]
                /\ Len(nav_ret.before) >= 2 =>
                      /\ get_current_page(pages).some
                      /\ get_current_page(pages).page = nav_ret.before[Len(nav_ret.before) - 1]
                /\ Len(nav_ret.before) = 1 => ~get_current_page(pages).some
           ELSE pages = <<>>

\* NavigateToPreviousPage was dispatched on Home, EpicDetail, StoryDetail
C19_Witness ==
    /\ nav_ret.type = "NavigateToPreviousPage"
    /\ Len(nav_ret.before) = 3
    /\ nav_ret.before[1].kind = "HomePage"
    /\ nav_ret.before[2].kind = "EpicDetail"
    /\ nav_ret.before[3].kind = "StoryDetail"

\* C20 as stated: NavigateToPreviousPage on a stack that holds only the Home
\* page is a no-op: the page count stays 1 and Home remains the current page.
C20_HomeOnlyPopIsNoOp ==
    (nav_ret.type = "NavigateToPreviousPage" /\ nav_ret.before = <<HomePage>>) =>
        /\ Len(pages) = 1
        /\ get_current_page(pages).some
        /\ get_current_page(pages).page = HomePage

\* C20 as amended: NavigateToPreviousPage on a stack that holds only the Home
\* page removes it: the page count becomes 0 and there is no current page.
C20_HomeOnlyPopEmpties ==
    (nav_ret.type = "NavigateToPreviousPage" /\ nav_ret.before = <<HomePage>>) =>
        /\ nav_ret.ok
        /\ Len(pages) = 0
        /\ ~get_current_page(pages).some

\* NavigateToPreviousPage was dispatched on the Home-only stack, reached by
\* going back from an EpicDetail page
C20_Witness ==
    /\ nav_ret.type = "NavigateToPreviousPage"
    /\ nav_ret.before = <<HomePage>>
    /\ db.epics # <<>>

\* the stack after is the stack before without its top page (empty stays empty)
Popped(after, before) ==
    IF before = <<>> THEN after = <<>>
    ELSE after = SubSeq(before, 1, Len(before) - 1)

\* C21: dispatching Exit from a stack of any depth (the empty one too) leaves
\* the page stack empty, so that there is no current page, and does not
\* modify the stored document.
C21_ExitClears ==
    nav_ret.type = "Exit" =>
        /\ nav_ret.ok
        /\ pages = <<>>
        /\ ~get_current_page(pages).some
        /\ db = nav_ret.doc

\* Exit was dispatched on Home, EpicDetail, StoryDetail over a document with
\* an epic
C21_Witness ==
    /\ nav_ret.type = "Exit"
    /\ Len(nav_ret.before) = 3
    /\ nav_ret.doc.epics # <<>>

\* C22: DeleteEpic / DeleteStory pop the current page only when the
\* confirmation returned true and the repository delete succeeded; when the
\* confirmation is declined there is no repository call and no pop; when the
\* delete fails the error is returned and the page stack is unchanged.
C22_DeletePopsOnlyOnSuccess ==
    nav_ret.type \in {"DeleteEpic", "DeleteStory"} =>
        /\ nav_ret.answer = "no" =>
              /\ ~nav_ret.called
              /\ nav_ret.ok
              /\ pages = nav_ret.before
              /\ db = nav_ret.doc
        /\ nav_ret.answer = "yes" =>
              /\ nav_ret.called
              /\ ret.op = (IF nav_ret.type = "DeleteEpic" THEN "delete_epic" ELSE "delete_story")
              /\ ret.epic_id = nav_ret.epic_id
              /\ ret.story_id = nav_ret.story_id
              /\ nav_ret.ok = ret.ok
              /\ ret.ok => Popped(pages, nav_ret.before)
              /\ ~ret.ok => (pages = nav_ret.before /\ ret.err # "none")
        /\ pages # nav_ret.before => (nav_ret.answer = "yes" /\ ret.ok)

\* a confirmed DeleteStory failed on the StoryDetail page (the epic is there,
\* the story is not), and the page stayed
C22_Witness ==
    /\ nav_ret.type = "DeleteStory"
    /\ nav_ret.answer = "yes"
    /\ ~nav_ret.ok
    /\ ret.err = "story_not_found"
    /\ Len(nav_ret.before) = 3
    /\ pages[3].kind = "StoryDetail"

\* C23: CreateEpic / CreateStory never change the page stack, whether the
\* repository create succeeds or fails; on failure the repository error is
\* returned to the caller and the stored document is unchanged.
C23_CreateKeepsPages ==
    nav_ret.type \in {"CreateEpic", "CreateStory"} =>
        /\ pages = nav_ret.before
        /\ nav_ret.called
        /\ ret.op = (IF nav_ret.type = "CreateEpic" THEN "create_epic" ELSE "create_story")
        /\ nav_ret.ok = ret.ok
        /\ ~ret.ok => (ret.err # "none" /\ db = nav_ret.doc)

\* CreateStory failed on an EpicDetail page whose epic does not exist
C23_Witness ==
    /\ nav_ret.type = "CreateStory"
    /\ ~nav_ret.ok
    /\ ret.err = "epic_not_found"
    /\ Len(nav_ret.before) = 2
    /\ nav_ret.before[2].kind = "EpicDetail"

\* C24: UpdateEpicStatus / UpdateStoryStatus, when the status prompt returns
\* no status, call no repository operation, leave the stored document and the
\* page stack unchanged and return success; when it returns a status st, the
\* targeted entity's stored status becomes st and the page stack is unchanged.
C24_UpdateDispatch ==
    nav_ret.type \in {"UpdateEpicStatus", "UpdateStoryStatus"} =>
        /\ pages = nav_ret.before
        /\ nav_ret.answer = "None" =>
              /\ ~nav_ret.called
              /\ nav_ret.ok
              /\ db = nav_ret.doc
        /\ (nav_ret.answer # "None" /\ nav_ret.ok) =>
              IF nav_ret.type = "UpdateEpicStatus"
              THEN db.epics[nav_ret.epic_id].status = nav_ret.answer
              ELSE db.stories[nav_ret.story_id].status = nav_ret.answer

\* C25: NavigateToEpicDetail{e} / NavigateToStoryDetail{e, s} always succeed
\* and push exactly one page of the matching variant, bound to the given
\* ids, on top of the stack (one page more, the pages beneath unchanged),
\* without consulting or modifying the stored document.
C25_NavigatePushes ==
    nav_ret.type \in {"NavigateToEpicDetail", "NavigateToStoryDetail"} =>
        /\ nav_ret.ok
        /\ ~nav_ret.called
        /\ db = nav_ret.doc
        /\ Len(pages) = Len(nav_ret.before) + 1
        /\ \A i \in DOMAIN nav_ret.before : pages[i] = nav_ret.before[i]
        /\ pages[Len(pages)] =
              (IF nav_ret.type = "NavigateToEpicDetail"
               THEN [kind |-> "EpicDetail", epic_id |-> nav_ret.epic_id, story_id |-> 0]
               ELSE [kind |-> "StoryDetail", epic_id |-> nav_ret.epic_id,
                     story_id |-> nav_ret.story_id])

\* NavigateToStoryDetail was dispatched on Home, EpicDetail while the stored
\* document has neither the epic nor the story
C25_Witness ==
    /\ nav_ret.type = "NavigateToStoryDetail"
    /\ Len(nav_ret.before) = 2
    /\ ~ContainsKey(db.epics, nav_ret.epic_id)
    /\ ~ContainsKey(db.stories, nav_ret.story_id)

\* C26: once the page stack is empty no dispatched action makes it non-empty
\* again (the empty stack is terminal for Navigator::handle_action).
C26_EmptyStackIsTerminal ==
    [][pages = <<>> => pages' = <<>>]_vars

----------------------------------------------------------------------------
(* Properties of the pages (specification SpecPages) *)

\* story s is owned by epic e: e is an epic and s is in its stories
Owns(d, e, s) ==
    /\ ContainsKey(d.epics, e)
    /\ s \in Elems(d.epics[e].stories)

\* input lines that are neither a recognised letter nor a number: junk, a
\* recognised letter followed by more characters, by a newline or by a blank
JunkLines ==
    { <<>>,
      <<"j", "9", "8", "3", "f", "2", "j">>,
      <<"q", "9", "8", "3", "f", "2", "j">>,
      <<"p", "9", "8", "3", "f", "2", "j">>,
      <<"q", "\n">>, <<"p", "\n">>, <<"c", " ">>,
      <<"1", " ">>, <<" ", "1">>, <<"1", "q">>, <<"-", "1">>, <<"+">> }

\* C27: EpicDetail.handle_input maps exactly "p", "u", "d", "c" to
\* NavigateToPreviousPage, UpdateEpicStatus, DeleteEpic, CreateStory of this
\* epic; maps a numeric token to NavigateToStoryDetail{this epic, id} only
\* when id is a story owned by this epic in the current snapshot; and yields
\* no action for every other input, the id of a story owned by a different
\* epic included.  Stated for a page whose epic exists.
C27_EpicDetailInput ==
    (page.kind = "EpicDetail" /\ page_ret.op = "handle_input"
        /\ ContainsKey(page_ret.doc.epics, page.epic_id)) =>
        /\ page_ret.ok
        /\ page_ret.action =
              (IF page_ret.input = <<"p">> THEN Action("NavigateToPreviousPage", 0, 0)
               ELSE IF page_ret.input = <<"u">> THEN Action("UpdateEpicStatus", page.epic_id, 0)
               ELSE IF page_ret.input = <<"d">> THEN Action("DeleteEpic", page.epic_id, 0)
               ELSE IF page_ret.input = <<"c">> THEN Action("CreateStory", page.epic_id, 0)
               ELSE IF /\ ParseInput(page_ret.input).ok
                       /\ Owns(page_ret.doc, page.epic_id, ParseInput(page_ret.input).value)
                    THEN Action("NavigateToStoryDetail", page.epic_id,
                                ParseInput(page_ret.input).value)
               ELSE NoAction)

\* C28: HomePage.handle_input maps exactly "q" to Exit and exactly "c" to
\* CreateEpic, maps an input that parses in whole as an unsigned integer to
\* NavigateToEpicDetail{id} only when id is a key of the epics map of the
\* current snapshot, and yields no action (not an error) for every other
\* input: an id that does not exist, a recognised letter followed by more
\* characters or by whitespace.
C28_HomePageInput ==
    (page.kind = "HomePage" /\ page_ret.op = "handle_input") =>
        /\ page_ret.ok
        /\ page_ret.action =
              (IF page_ret.input = <<"q">> THEN Action("Exit", 0, 0)
               ELSE IF page_ret.input = <<"c">> THEN Action("CreateEpic", 0, 0)
               ELSE IF /\ ParseInput(page_ret.input).ok
                       /\ ContainsKey(page_ret.doc.epics, ParseInput(page_ret.input).value)
                    THEN Action("NavigateToEpicDetail", ParseInput(page_ret.input).value, 0)
               ELSE NoAction)
        /\ page_ret.input \in JunkLines => page_ret.action = NoAction
        /\ \A id \in IdArgs \cup {999} :
              page_ret.input = U32ToString(id) =>
                  page_ret.action = (IF id \in DOMAIN page_ret.doc.epics
                                     THEN Action("NavigateToEpicDetail", id, 0)
                                     ELSE NoAction)
        /\ page_ret.action.type = "NavigateToEpicDetail" =>
              page_ret.action.epic_id \in DOMAIN page_ret.doc.epics

\* the Home page was given "2" while epics 1 and 2 exist, and "999" would
\* name none: the action navigates to epic 2
C28_Witness ==
    /\ page.kind = "HomePage"
    /\ page_ret.op = "handle_input"
    /\ page_ret.input = <<"2">>
    /\ DOMAIN page_ret.doc.epics = {1, 2}
    /\ page_ret.action = Action("NavigateToEpicDetail", 2, 0)

\* C29: StoryDetail.handle_input maps exactly "p", "u", "d" to
\* NavigateToPreviousPage, UpdateStoryStatus{this story}, DeleteStory{this
\* epic, this story}, and yields no action for every other input, every
\* numeric token included, even one that names an existing epic or story.
C29_StoryDetailInput ==
    (page.kind = "StoryDetail" /\ page_ret.op = "handle_input") =>
        /\ page_ret.ok
        /\ page_ret.action =
              (IF page_ret.input = <<"p">> THEN Action("NavigateToPreviousPage", 0, 0)
               ELSE IF page_ret.input = <<"u">>
                    THEN Action("UpdateStoryStatus", 0, page.story_id)
               ELSE IF page_ret.input = <<"d">>
                    THEN Action("DeleteStory", page.epic_id, page.story_id)
               ELSE NoAction)

\* the page of story 2 of epic 1 was given "2", the id of that story, and
\* yielded no action
C29_Witness ==
    /\ page = [kind |-> "StoryDetail", epic_id |-> 1, story_id |-> 2]
    /\ Owns(page_ret.doc, 1, 2)
    /\ ContainsKey(page_ret.doc.stories, 2)
    /\ page_ret.op = "handle_input"
    /\ page_ret.input = <<"2">>
    /\ page_ret.action = NoAction

\* C30 as stated: rendering an EpicDetail page fails with a not-found error
\* exactly when its epic_id is not in the epics map, rendering a StoryDetail
\* page fails exactly when its story_id or its epic_id is not in the
\* snapshot, and rendering the Home page never fails.
C30_DrawFailsOnMissingTargets ==
    page_ret.op = "draw_page" =>
        /\ page.kind = "HomePage" => page_ret.ok
        /\ page.kind = "EpicDetail" =>
              (~page_ret.ok <=> ~ContainsKey(page_ret.doc.epics, page.epic_id))
        /\ page.kind = "StoryDetail" =>
              (~page_ret.ok <=> (\/ ~ContainsKey(page_ret.doc.stories, page.story_id)
                                 \/ ~ContainsKey(page_ret.doc.epics, page.epic_id)))

\* C30 as amended: rendering an EpicDetail page fails with a not-found error
\* exactly when its epic_id is not in the epics map, rendering a StoryDetail
\* page fails exactly when its story_id is not in the stories map (its
\* epic_id is not looked up), and rendering the Home page never fails.
C30_DrawFailsOnMissingTarget ==
    page_ret.op = "draw_page" =>
        /\ page.kind = "HomePage" => page_ret.ok
        /\ page.kind = "EpicDetail" =>
              /\ ~page_ret.ok <=> ~ContainsKey(page_ret.doc.epics, page.epic_id)
              /\ ~page_ret.ok => (page_ret.err = "epic_not_found"
                                   /\ page_ret.err_id = page.epic_id)
        /\ page.kind = "StoryDetail" =>
              /\ ~page_ret.ok <=> ~ContainsKey(page_ret.doc.stories, page.story_id)
              /\ ~page_ret.ok => (page_ret.err = "story_not_found"
                                   /\ page_ret.err_id = page.story_id)

\* a StoryDetail page whose story exists and whose epic_id names no epic was
\* rendered, and rendering succeeded
C30_Witness ==
    /\ page.kind = "StoryDetail"
    /\ page_ret.op = "draw_page"
    /\ ContainsKey(page_ret.doc.stories, page.story_id)
    /\ ~ContainsKey(page_ret.doc.epics, page.epic_id)
    /\ page_ret.ok

\* C31: for every page variant, draw_page and handle_input leave the stored
\* document and the navigator's page stack unchanged, whatever the input and
\* whether they succeed or fail.
C31_PagesAreReadOnly ==
    [][page_ret' # page_ret => (db' = db /\ pages' = pages)]_vars

\* a detail page whose target does not exist was drawn on a document that
\* holds an epic: the call failed and the document is the one it read
C31_Witness ==
    /\ page.kind # "HomePage"
    /\ page_ret.op = "draw_page"
    /\ ~page_ret.ok
    /\ page_ret.doc.epics # <<>>
    /\ db = page_ret.doc
    /\ pages = NavigatorNew

----------------------------------------------------------------------------
(* Properties of main's loop (specification SpecLoop) *)

\* C33: under the loop, where every dispatched action is the one the current
\* page's handle_input produced, the page stack is a prefix of
\* [Home, EpicDetail(e), StoryDetail(e, s)]: at most 3 pages, Home at the
\* bottom, and a StoryDetail page carries the epic_id of the EpicDetail page
\* directly beneath it.
C33_StackShape ==
    /\ Len(pages) <= 3
    /\ Len(pages) >= 1 => pages[1] = HomePage
    /\ Len(pages) >= 2 => pages[2].kind = "EpicDetail"
    /\ Len(pages) >= 3 =>
          /\ pages[3].kind = "StoryDetail"
          /\ pages[3].epic_id = pages[2].epic_id

\* the loop is on the page of a story reached from the page of epic 2
C33_Witness ==
    /\ Len(pages) = 3
    /\ pages[2].epic_id = 2
    /\ pc = "input"

\* the entity a page is about is in the document
TargetExists(d, p) ==
    /\ p.kind = "EpicDetail" => ContainsKey(d.epics, p.epic_id)
    /\ p.kind = "StoryDetail" => ContainsKey(d.stories, p.story_id)

\* C34: under the loop, at the start of every render/input cycle the entity
\* the current detail page targets is in the stored document, so drawing the
\* current page never fails with not-found; after a confirmed, successful
\* delete the current page is the parent view and no page left on the stack
\* is bound to the deleted entity.
C34_CurrentPageTargetExists ==
    /\ (pc = "cycle" /\ get_current_page(pages).some) =>
          TargetExists(db, get_current_page(pages).page)
    /\ pc \in {"input", "dispatch"} => drawn.ok
    /\ (nav_ret.type = "DeleteEpic" /\ nav_ret.answer = "yes" /\ nav_ret.ok) =>
          /\ nav_ret.before # <<>>
          /\ Popped(pages, nav_ret.before)
          /\ pages = <<HomePage>>
          /\ \A i \in DOMAIN pages : pages[i].epic_id # nav_ret.epic_id
    /\ (nav_ret.type = "DeleteStory" /\ nav_ret.answer = "yes" /\ nav_ret.ok) =>
          /\ nav_ret.before # <<>>
          /\ Popped(pages, nav_ret.before)
          /\ pages = <<HomePage, [kind |-> "EpicDetail", epic_id |-> nav_ret.epic_id,
                                  story_id |-> 0]>>
          /\ \A i \in DOMAIN pages : pages[i].story_id # nav_ret.story_id

\* a story was deleted from its page with the confirmation given, and the
\* page of its epic has been drawn since
C34_Witness ==
    /\ nav_ret.type = "DeleteStory"
    /\ nav_ret.answer = "yes"
    /\ nav_ret.ok
    /\ Len(nav_ret.before) = 3
    /\ pc = "input"
    /\ drawn.ok

====
